---- MODULE Spec2Model ----
(***************************************************************************)
(* The course-maker consumer: src/main.py (consumer loop, process_message,  *)
(* save_course_content) and src/courseGenerator/generator.py                *)
(* (generate_course_content).                                               *)
(*                                                                          *)
(* One topic partition (log), one consumer group (committed), one artifact  *)
(* directory (store). A consumer process is started, runs main(), exits,    *)
(* and may be started again.                                                *)
(***************************************************************************)
EXTENDS Integers, Sequences, FiniteSets, TLC

\* ---------------------------------------------------------------- bounds
MaxLog      == 2   \* messages ever produced to the topic
MaxModules  == 3   \* modules in one course outline
MaxRestarts == 1   \* times the consumer process is started again
MaxSections == 2   \* sections in one module outline
MaxTitleLen == 3   \* characters in a course title given to the file name

VARIABLES
    log,          \* the topic partition: sequence of messages, offset o is log[o+1]
    committed,    \* the group's committed offset, NoOffset when none was ever committed
    store,        \* generated_courses/: title -> "absent", "partial" (a strict
                  \* prefix of the document, the empty file included), "complete"
    pc,           \* where the consumer process is in main()
    position,     \* the consumer's fetch position (offset of the next message)
    cur,          \* the message process_message is working on (NoMsg outside)
    curOff,       \* its offset
    outcome,      \* how process_message ended for cur
    persist,      \* how save_course_content ended for cur
    calls,        \* text-generation calls issued for cur
    llm,          \* what the text-generation service does for cur
    errlog,       \* logger.error lines written for cur
    writes,       \* times the store was modified for cur
    exitCause,    \* why the loop left `for message in consumer`
    stopPhase,    \* pc at which KeyboardInterrupt arrived
    closed,       \* consumer.close() was called in this run
    restarts,     \* process starts after the first
    fetched,      \* offsets ever handed to process_message
    handled,      \* offsets for which process_message returned
    runStarted,   \* offsets handed to process_message in this run, in order
    commitDone,   \* offsets whose consumer.commit() returned in this run
    entry,        \* the function of the program that is being run on its own
    arg,          \* its argument
    gpc,          \* where it is
    chain_runs,   \* the chain.run() calls it has issued, in order
    texts,        \* the texts they returned
    frame,        \* generate_course_content's module loop: index, renderings
    result        \* what it returned, or that it raised

vars == <<log, committed, store, pc, position, cur, curOff, outcome, persist,
          calls, llm, errlog, writes, exitCause, stopPhase, closed, restarts,
          fetched, handled, runStarted, commitDone,
          entry, arg, gpc, chain_runs, texts, frame, result>>

consumer == <<log, committed, store, pc, position, cur, curOff, outcome, persist,
              calls, llm, errlog, writes, exitCause, stopPhase, closed, restarts,
              fetched, handled, runStarted, commitDone>>
gen      == <<entry, arg, gpc, chain_runs, texts, frame, result>>

durable == <<log, committed, store>>
history == <<fetched, handled, runStarted, commitDone>>

\* ---------------------------------------------------------------- values
NoOffset == 0 - 1
Titles   == {"go"}          \* course titles, each its own file
NoTitle  == "none"

\* What a payload on the topic can be:
\*   undecodable  bytes that json.loads rejects
\*   nonobject    JSON that is no container (a number, null): `key in value` raises
\*   notitle      a JSON object without "title"
\*   nomodules    a JSON object without "modules"
\*   ok           a JSON object with "title" and "modules"
Messages  ==
    [kind : {"ok"}, title : Titles, nmods : 0..MaxModules]
    \cup [kind : {"nomodules"}, title : Titles, nmods : {0}]
    \cup [kind : {"notitle"}, title : {NoTitle}, nmods : {0}]
    \cup [kind : {"undecodable", "nonobject"}, title : {NoTitle}, nmods : {0}]
NoMsg     == [kind |-> "none", title |-> NoTitle, nmods |-> 0]

\* The text-generation service's behaviour for one course: the first call it
\* fails. NoFail: none; 0: the course description; k >= 1: a call for module k.
NoFail    == 0 - 1
LlmFor(m) == {NoFail} \cup 0..m.nmods

Running     == {"fetch", "process", "describe", "modules", "save", "write", "commit"}
Partial     == {"process", "describe", "modules", "save", "write"}

\* ---------------------------------------------------------------- configuration
\* Faulty variant: the library's default, the consumer commits by itself.
auto_commit_default == TRUE

\* create_consumer(): enable_auto_commit=False, auto_offset_reset='latest'
enable_auto_commit == FALSE
auto_offset_reset  == "latest"

\* Offset a newly assigned consumer starts from.
StartPosition ==
    IF committed # NoOffset THEN committed
    ELSE IF auto_offset_reset = "latest" THEN Len(log) ELSE 0

\* ---------------------------------------------------------------- pure helpers
\* Faulty variant: the validation looks at 'title' only.
HasTitleOnly(m) == m.kind # "notitle"

\* all(key in course_data for key in ['title', 'modules'])
HasRequired(m) == m.kind \notin {"notitle", "nomodules"}

\* `key in course_data` raises TypeError when the payload is no container
MembershipRaises(m) == m.kind = "nonobject"

\* is_software_course(<bool>) at generator.py:76: the argument is the result of
\* `'software' in ... or 'programming' in ...`, a bool, and the function calls
\* category.lower() on it: AttributeError on the first module of every course.
ClassifyRaises(m) == m.nmods >= 1

\* ---------------------------------------------------------------- Init
None == [type |-> "None"]

NoFrame == [i |-> 0, modules_content |-> << >>]

\* No function is being run on its own.
GenIdle ==
    /\ entry = "none"
    /\ arg = None
    /\ gpc = "idle"
    /\ chain_runs = << >>
    /\ texts = << >>
    /\ frame = NoFrame
    /\ result = None

ConsumerInit ==
    /\ log = << >>
    /\ committed = NoOffset
    /\ store = [t \in Titles |-> "absent"]
    /\ pc = "init"
    /\ position = 0
    /\ cur = NoMsg
    /\ curOff = NoOffset
    /\ outcome = "none"
    /\ persist = "none"
    /\ calls = 0
    /\ llm = NoFail
    /\ errlog = {}
    /\ writes = 0
    /\ exitCause = "none"
    /\ stopPhase = "none"
    /\ closed = FALSE
    /\ restarts = 0
    /\ fetched = {}
    /\ handled = {}
    /\ runStarted = << >>
    /\ commitDone = {}

Init == ConsumerInit /\ GenIdle

\* ---------------------------------------------------------------- environment
\* A producer appends a course request to the topic. The consumer reads the
\* topic when it starts and when it fetches, so appends are taken at those
\* points only (an append during processing commutes with the processing step).
Produce ==
    /\ Len(log) < MaxLog
    /\ pc \in {"init", "fetch"}
    /\ \E m \in Messages : log' = Append(log, m)
    /\ UNCHANGED <<committed, store, pc, position, cur, curOff, outcome, persist,
                   calls, llm, errlog, writes, exitCause, stopPhase, closed, restarts>>
    /\ UNCHANGED history
    /\ UNCHANGED gen

\* ---------------------------------------------------------------- main(): start
Locals == <<position, cur, curOff, outcome, persist, calls, llm, errlog, writes>>

\* main.py:127-134: create_consumer() returns a subscribed consumer.
Start ==
    /\ pc = "init"
    /\ pc' = "fetch"
    /\ position' = StartPosition
    /\ UNCHANGED <<cur, curOff, outcome, persist, calls, llm, errlog, writes>>
    /\ UNCHANGED <<exitCause, stopPhase, closed, restarts>>
    /\ UNCHANGED durable
    /\ UNCHANGED history
    /\ UNCHANGED gen

\* main.py:63-65, 145-149: create_consumer() raises; `consumer` is no local, so
\* nothing is closed.
StartFail ==
    /\ pc = "init"
    /\ pc' = "exited"
    /\ exitCause' = "startup"
    /\ UNCHANGED Locals
    /\ UNCHANGED <<stopPhase, closed, restarts>>
    /\ UNCHANGED durable
    /\ UNCHANGED history
    /\ UNCHANGED gen

\* ---------------------------------------------------------------- main(): the loop
\* main.py:137: the iterator yields the next record, decoded by value_deserializer
\* (main.py:56), and advances the position past it.
Fetch ==
    /\ pc = "fetch"
    /\ position < Len(log)
    /\ log[position + 1].kind # "undecodable"
    /\ cur' = log[position + 1]
    /\ curOff' = position
    /\ position' = position + 1
    /\ pc' = "process"
    /\ outcome' = "none"
    /\ persist' = "none"
    /\ calls' = 0
    /\ errlog' = {}
    /\ writes' = 0
    /\ llm' \in LlmFor(log[position + 1])
    /\ committed' = IF enable_auto_commit /\ position > 0 THEN position ELSE committed
    /\ fetched' = fetched \cup {position}
    /\ runStarted' = Append(runStarted, position)
    /\ UNCHANGED <<log, store, exitCause, stopPhase, closed, restarts, handled, commitDone>>
    /\ UNCHANGED gen

\* main.py:56, 137, 145-146: json.loads raises inside the iterator, outside
\* process_message's try; main's `except Exception` logs and leaves the loop.
FetchDecodeError ==
    /\ pc = "fetch"
    /\ position < Len(log)
    /\ log[position + 1].kind = "undecodable"
    /\ pc' = "closing"
    /\ exitCause' = "decode"
    /\ cur' = NoMsg
    /\ curOff' = position
    /\ outcome' = "none"
    /\ persist' = "none"
    /\ calls' = 0
    /\ llm' = NoFail
    /\ errlog' = {"unexpected_error"}
    /\ writes' = 0
    /\ UNCHANGED <<position, stopPhase, closed, restarts>>
    /\ UNCHANGED durable
    /\ UNCHANGED history
    /\ UNCHANGED gen

\* process_message returns (normally or through its `except Exception`):
\* control is back in main() at consumer.commit().
Return(o, lines) ==
    /\ pc' = "commit"
    /\ outcome' = o
    /\ errlog' = errlog \cup lines
    /\ handled' = handled \cup {curOff}
    /\ UNCHANGED <<fetched, runStarted, commitDone>>

\* Faulty variant: an invalid message skips the rest of the loop body (`continue`).
ValidateContinue ==
    /\ pc = "process"
    /\ IF MembershipRaises(cur)
       THEN Return("Failed", {"error_processing"})
       ELSE IF ~HasRequired(cur)
       THEN /\ pc' = "fetch"
            /\ outcome' = "Skipped"
            /\ errlog' = errlog \cup {"invalid_format"}
            /\ handled' = handled \cup {curOff}
            /\ UNCHANGED <<fetched, runStarted, commitDone>>
       ELSE /\ pc' = "describe"
            /\ UNCHANGED <<outcome, errlog>>
            /\ UNCHANGED history
    /\ UNCHANGED <<position, cur, curOff, persist, calls, llm, writes>>
    /\ UNCHANGED <<exitCause, stopPhase, closed, restarts>>
    /\ UNCHANGED durable
    /\ UNCHANGED gen

\* main.py:79-84 (and 94-95 when the membership test raises).
Validate ==
    /\ pc = "process"
    /\ IF MembershipRaises(cur)
       THEN Return("Failed", {"error_processing"})
       ELSE IF ~HasRequired(cur)
       THEN Return("Skipped", {"invalid_format"})
       ELSE /\ pc' = "describe"
            /\ UNCHANGED <<outcome, errlog>>
            /\ UNCHANGED history
    /\ UNCHANGED <<position, cur, curOff, persist, calls, llm, writes>>
    /\ UNCHANGED <<exitCause, stopPhase, closed, restarts>>
    /\ UNCHANGED durable
    /\ UNCHANGED gen

\* generator.py:58-68, 94-131: the one course-description call. A failure is
\* logged and re-raised at generator.py:89-91 and caught at main.py:94-95.
Describe ==
    /\ pc = "describe"
    /\ calls' = calls + 1
    /\ IF llm # 0
       THEN /\ pc' = "modules"
            /\ UNCHANGED <<outcome, errlog>>
            /\ UNCHANGED history
       ELSE Return("Failed", {"error_generating", "error_processing"})
    /\ UNCHANGED <<position, cur, curOff, persist, llm, writes>>
    /\ UNCHANGED <<exitCause, stopPhase, closed, restarts>>
    /\ UNCHANGED durable
    /\ UNCHANGED gen

\* Faulty variant: the generator's handler returns what it has instead of re-raising.
ModulesEmitPartial ==
    /\ pc = "modules"
    /\ pc' = "save"
    /\ outcome' = "Generated"
    /\ errlog' = IF ClassifyRaises(cur) THEN errlog \cup {"error_generating"} ELSE errlog
    /\ UNCHANGED history
    /\ UNCHANGED <<position, cur, curOff, persist, calls, llm, writes>>
    /\ UNCHANGED <<exitCause, stopPhase, closed, restarts>>
    /\ UNCHANGED durable
    /\ UNCHANGED gen

\* generator.py:71-87: table of contents, the module loop, COURSE_TEMPLATE.
\* The loop's first iteration raises (ClassifyRaises) before any module call;
\* with no module the document is composed and returned.
Modules ==
    /\ pc = "modules"
    /\ IF ClassifyRaises(cur)
       THEN Return("Failed", {"error_generating", "error_processing"})
       ELSE /\ pc' = "save"
            /\ outcome' = "Generated"
            /\ UNCHANGED errlog
            /\ UNCHANGED history
    /\ UNCHANGED <<position, cur, curOff, persist, calls, llm, writes>>
    /\ UNCHANGED <<exitCause, stopPhase, closed, restarts>>
    /\ UNCHANGED durable
    /\ UNCHANGED gen

\* main.py:106-114: makedirs, the file name, open(filepath, 'w'), which creates or
\* truncates the file. A failure is logged at main.py:118-119 and swallowed;
\* process_message then logs success (main.py:92) and returns.
SaveOpen ==
    /\ pc = "save"
    /\ \E ok \in BOOLEAN :
         IF ok
         THEN /\ store' = [store EXCEPT ![cur.title] = "partial"]
              /\ writes' = writes + 1
              /\ pc' = "write"
              /\ UNCHANGED <<outcome, persist, errlog>>
              /\ UNCHANGED history
         ELSE /\ store' = store
              /\ writes' = writes
              /\ persist' = "failed"
              /\ Return("Generated", {"error_saving"})
    /\ UNCHANGED <<position, cur, curOff, calls, llm>>
    /\ UNCHANGED <<exitCause, stopPhase, closed, restarts>>
    /\ UNCHANGED <<log, committed>>
    /\ UNCHANGED gen

\* Faulty variant: a write error is not caught in save_course_content nor in
\* process_message and reaches main's handler.
SaveWriteRaising ==
    /\ pc = "write"
    /\ \E ok \in BOOLEAN :
         IF ok
         THEN /\ store' = [store EXCEPT ![cur.title] = "complete"]
              /\ writes' = writes + 1
              /\ persist' = "ok"
              /\ Return("Generated", {})
              /\ UNCHANGED exitCause
         ELSE /\ store' = [store EXCEPT ![cur.title] = "partial"]
              /\ writes' = writes
              /\ persist' = "failed"
              /\ pc' = "closing"
              /\ exitCause' = "persist"
              /\ errlog' = errlog \cup {"unexpected_error"}
              /\ UNCHANGED outcome
              /\ UNCHANGED history
    /\ UNCHANGED <<position, cur, curOff, calls, llm>>
    /\ UNCHANGED <<stopPhase, closed, restarts>>
    /\ UNCHANGED <<log, committed>>
    /\ UNCHANGED gen

\* main.py:115-119: f.write(content) and the close of the `with` block.
SaveWrite ==
    /\ pc = "write"
    /\ \E ok \in BOOLEAN :
         IF ok
         THEN /\ store' = [store EXCEPT ![cur.title] = "complete"]
              /\ writes' = writes + 1
              /\ persist' = "ok"
              /\ Return("Generated", {})
         ELSE /\ store' = [store EXCEPT ![cur.title] = "partial"]
              /\ writes' = writes
              /\ persist' = "failed"
              /\ Return("Generated", {"error_saving"})
    /\ UNCHANGED <<position, cur, curOff, calls, llm>>
    /\ UNCHANGED <<exitCause, stopPhase, closed, restarts>>
    /\ UNCHANGED <<log, committed>>
    /\ UNCHANGED gen

\* main.py:141: consumer.commit() commits the position and returns.
Commit ==
    /\ pc = "commit"
    /\ committed' = position
    /\ pc' = "fetch"
    /\ commitDone' = commitDone \cup {curOff}
    /\ UNCHANGED Locals
    /\ UNCHANGED <<exitCause, stopPhase, closed, restarts>>
    /\ UNCHANGED <<log, store>>
    /\ UNCHANGED <<fetched, handled, runStarted>>
    /\ UNCHANGED gen

\* main.py:141, 145-146: consumer.commit() raises (the group rebalanced, the
\* broker is unreachable); main's `except Exception` logs and leaves the loop.
CommitFail ==
    /\ pc = "commit"
    /\ pc' = "closing"
    /\ exitCause' = "commit"
    /\ errlog' = errlog \cup {"unexpected_error"}
    /\ UNCHANGED <<position, cur, curOff, outcome, persist, calls, llm, writes>>
    /\ UNCHANGED <<stopPhase, closed, restarts>>
    /\ UNCHANGED durable
    /\ UNCHANGED history
    /\ UNCHANGED gen

\* What an interruption leaves behind of the operation it cuts short: a file
\* opened for writing keeps the prefix of the document it holds ("partial"), a
\* commit request may or may not have reached the broker.
CutShort ==
    /\ store' = store
    /\ IF pc = "commit"
       THEN committed' \in {committed, position}
       ELSE committed' = committed
    /\ log' = log

\* Faulty variant: the interrupt ends the process at once, the finally block
\* does not run.
StopExiting ==
    /\ pc \in Running
    /\ pc' = "exited"
    /\ exitCause' = "stop"
    /\ stopPhase' = pc
    /\ CutShort
    /\ UNCHANGED Locals
    /\ UNCHANGED <<closed, restarts>>
    /\ UNCHANGED history
    /\ UNCHANGED gen

\* main.py:143-144: KeyboardInterrupt is no Exception, so none of the
\* `except Exception` handlers (main.py:94, 118; generator.py:89) catches it.
Stop ==
    /\ pc \in Running
    /\ pc' = "closing"
    /\ exitCause' = "stop"
    /\ stopPhase' = pc
    /\ CutShort
    /\ UNCHANGED Locals
    /\ UNCHANGED <<closed, restarts>>
    /\ UNCHANGED history
    /\ UNCHANGED gen

\* Faulty variant: shutdown commits the consumed position before closing.
CloseCommitting ==
    /\ pc = "closing"
    /\ pc' = "exited"
    /\ closed' = TRUE
    /\ committed' = position
    /\ UNCHANGED Locals
    /\ UNCHANGED <<exitCause, stopPhase, restarts>>
    /\ UNCHANGED <<log, store>>
    /\ UNCHANGED history
    /\ UNCHANGED gen

\* main.py:147-150: finally: consumer.close(). With enable_auto_commit=False
\* close() commits nothing.
Close ==
    /\ pc = "closing"
    /\ pc' = "exited"
    /\ closed' = TRUE
    /\ committed' = IF enable_auto_commit THEN position ELSE committed
    /\ UNCHANGED Locals
    /\ UNCHANGED <<exitCause, stopPhase, restarts>>
    /\ UNCHANGED <<log, store>>
    /\ UNCHANGED history
    /\ UNCHANGED gen

\* The process is killed (no handler runs).
Crash ==
    /\ pc \in Running \cup {"closing"}
    /\ pc' = "exited"
    /\ exitCause' = IF pc = "closing" THEN exitCause ELSE "crash"
    /\ CutShort
    /\ UNCHANGED Locals
    /\ UNCHANGED <<stopPhase, closed, restarts>>
    /\ UNCHANGED history
    /\ UNCHANGED gen

\* main.py:153-154: the program is run again; the process starts from scratch,
\* the topic, the group's committed offset and the files are what they were.
Restart ==
    /\ pc = "exited"
    /\ restarts < MaxRestarts
    /\ restarts' = restarts + 1
    /\ pc' = "init"
    /\ position' = 0
    /\ cur' = NoMsg
    /\ curOff' = NoOffset
    /\ outcome' = "none"
    /\ persist' = "none"
    /\ calls' = 0
    /\ llm' = NoFail
    /\ errlog' = {}
    /\ writes' = 0
    /\ exitCause' = "none"
    /\ stopPhase' = "none"
    /\ closed' = FALSE
    /\ runStarted' = << >>
    /\ commitDone' = {}
    /\ UNCHANGED <<fetched, handled>>
    /\ UNCHANGED durable
    /\ UNCHANGED gen

Next ==
    \/ Produce
    \/ Start
    \/ StartFail
    \/ Fetch
    \/ FetchDecodeError
    \/ Validate
    \/ Describe
    \/ Modules
    \/ SaveOpen
    \/ SaveWrite
    \/ Commit
    \/ CommitFail
    \/ Stop
    \/ Close
    \/ Crash
    \/ Restart

Spec == Init /\ [][Next]_vars

\* One run of the program left to its own handlers: stopped by the interrupt
\* or by an error, never killed. Once the try block of main() is left its
\* finally block runs (main.py:147-150).
GracefulNext ==
    \/ Produce
    \/ Start
    \/ StartFail
    \/ Fetch
    \/ FetchDecodeError
    \/ Validate
    \/ Describe
    \/ Modules
    \/ SaveOpen
    \/ SaveWrite
    \/ Commit
    \/ CommitFail
    \/ Stop
    \/ Close

GracefulSpec == Init /\ [][GracefulNext]_vars /\ WF_vars(Close)

\* ================================================================ the functions on their own
\* generator.py's functions and main.py's file name, each run on its own on
\* inputs drawn from small sets. Text is a sequence of characters.

\* ---------------------------------------------------------------- Python values
Str(chars) == [type |-> "str", v |-> chars]
Bool(b)    == [type |-> "bool", v |-> b]
Raised     == [type |-> "raised"]

UpperLetters == <<"A", "B", "C", "D", "E", "F", "G", "H", "I", "J", "K", "L", "M", "N", "O", "P", "Q", "R", "S", "T", "U", "V", "W", "X", "Y", "Z">>
LowerLetters == <<"a", "b", "c", "d", "e", "f", "g", "h", "i", "j", "k", "l", "m", "n", "o", "p", "q", "r", "s", "t", "u", "v", "w", "x", "y", "z">>

\* str.lower()
LowerChar(c) ==
    IF \E n \in 1..Len(UpperLetters) : UpperLetters[n] = c
    THEN LowerLetters[CHOOSE n \in 1..Len(UpperLetters) : UpperLetters[n] = c]
    ELSE c
lower(s) == [i \in 1..Len(s) |-> LowerChar(s[i])]

\* `sub in s` on two str
Contains(sub, s) ==
    \E i \in 0..(Len(s) - Len(sub)) : SubSeq(s, i + 1, i + Len(sub)) = sub

\* str.replace(old, new) for one-character old and new
replace(s, old, new) == [i \in 1..Len(s) |-> IF s[i] = old THEN new ELSE s[i]]

\* ---------------------------------------------------------------- is_software_course
\* generator.py:297-301
software_keywords == <<
    <<"s", "o", "f", "t", "w", "a", "r", "e">>,
    <<"p", "r", "o", "g", "r", "a", "m", "m", "i", "n", "g">>,
    <<"c", "o", "d", "i", "n", "g">>,
    <<"d", "e", "v", "e", "l", "o", "p", "m", "e", "n", "t">>,
    <<"j", "a", "v", "a", "s", "c", "r", "i", "p", "t">>,
    <<"p", "y", "t", "h", "o", "n">>,
    <<"j", "a", "v", "a">>,
    <<"c", "+", "+">>,
    <<"w", "e", "b">>,
    <<"a", "p", "p">>,
    <<"d", "a", "t", "a", "b", "a", "s", "e">>,
    <<"f", "r", "o", "n", "t", "e", "n", "d">>,
    <<"b", "a", "c", "k", "e", "n", "d">>,
    <<"f", "u", "l", "l", "s", "t", "a", "c", "k">>,
    <<"d", "a", "t", "a", " ", "s", "c", "i", "e", "n", "c", "e">>,
    <<"m", "a", "c", "h", "i", "n", "e", " ", "l", "e", "a", "r", "n", "i", "n", "g">>
>>

\* Faulty variant: the category is not lower-cased.
is_software_course_cased(category) ==
    IF category.type # "str"
    THEN Raised
    ELSE Bool(\E k \in 1..Len(software_keywords) :
                  Contains(software_keywords[k], category.v))

\* generator.py:287-303. On anything but a str, category.lower() raises
\* AttributeError.
is_software_course(category) ==
    IF category.type # "str"
    THEN Raised
    ELSE Bool(\E k \in 1..Len(software_keywords) :
                  Contains(software_keywords[k], lower(category.v)))

\* Category strings: a word, alone or inside a longer category.
CategoryWords == {
    <<"p", "y", "t", "h", "o", "n">>,
    <<"P", "y", "t", "h", "o", "n">>,
    <<"P", "Y", "T", "H", "O", "N">>,
    <<"p", "Y", "t", "H", "o", "N">>,
    <<"H", "i", "s", "t", "o", "r", "y">>,
    <<"B", "i", "o", "s", "o", "f", "t", "w", "a", "r", "e">>,
    << >>,
    <<"J", "a", "v", "a">>,
    <<"C", "+", "+">>,
    <<"W", "e", "b", " ", "D", "e", "s", "i", "g", "n">>,
    <<"A", "r", "t">>,
    <<"D", "a", "t", "a", " ", "S", "c", "i", "e", "n", "c", "e">>,
    <<"P", "r", "o", "g", "r", "a", "m", "m", "i", "n", "g">>,
    <<"C", "o", "o", "k", "i", "n", "g">>,
    <<"H", "a", "p", "p", "i", "n", "e", "s", "s">>,
    <<"M", "u", "s", "i", "c">>
}
CategoryPrefixes == {<< >>, <<"I", "n", "t", "r", "o", " ", "t", "o", " ">>, <<"x">>}
CategorySuffixes == {<< >>, <<" ", "1", "0", "1">>, <<"s">>}
Categories ==
    {a \o w \o b : <<a, w, b>> \in CategoryPrefixes \X CategoryWords \X CategorySuffixes}

GenUnchanged == UNCHANGED consumer

\* is_software_course(category) is called with a str.
CallClassify ==
    /\ gpc = "idle"
    /\ \E c \in Categories :
         /\ entry' = "is_software_course"
         /\ arg' = Str(c)
         /\ result' = is_software_course(Str(c))
    /\ gpc' = "done"
    /\ UNCHANGED <<chain_runs, texts, frame>>
    /\ GenUnchanged

\* ---------------------------------------------------------------- outlines
\* A module of an outline: {'title': ..., 'sections': [{'title': ...}, ...]},
\* the key 'sections' being optional.
ModuleTitles == {<<"B", "a", "s", "i", "c", "s">>, <<"G", "o", " ", "L", "o", "o", "p", "s">>}
SectionNames == <<<<"V", "a", "r", "s">>, <<"L", "o", "o", "p", "s">>, <<"H", "a", "s", "h", " ", "M", "a", "p", "s">>>>
SectionLists ==
    {[j \in 1..n |-> [title |-> SectionNames[((j - 1) % Len(SectionNames)) + 1]]] :
        n \in 0..MaxSections}
ModuleOutlines ==
    [title : ModuleTitles, has_sections : {TRUE}, sections : SectionLists]
    \cup [title : ModuleTitles, has_sections : {FALSE}, sections : {<< >>}]
ModuleLists == UNION {[1..n -> ModuleOutlines] : n \in 0..MaxModules}

\* ---------------------------------------------------------------- generate_table_of_contents
\* title.lower().replace(' ', '-')
anchor(title) == replace(lower(title), " ", "-")

\* A line of the table: f"{i}. [{title}](#{anchor})" is indent 0, number <<i>>;
\* f"   {i}.{j}. [{title}](#{anchor})" is indent 3, number <<i, j>>.
TocLine(ind, num, title) ==
    [indent |-> ind, number |-> num, title |-> title, anchor |-> anchor(title)]

\* generator.py:151-154: the lines of module i's sections
SectionEntries(i, module) ==
    IF module.has_sections
    THEN [j \in 1..Len(module.sections) |-> TocLine(3, <<i, j>>, module.sections[j].title)]
    ELSE << >>

\* Faulty variant: enumerate() left at its default start, 0.
ModuleEntriesFromZero(i, module) ==
    <<TocLine(0, <<i - 1>>, module.title)>> \o SectionEntries(i - 1, module)

\* generator.py:146-154: the lines of module i, enumerate(modules, 1)
ModuleEntries(i, module) ==
    <<TocLine(0, <<i>>, module.title)>> \o SectionEntries(i, module)

RECURSIVE TocFrom(_, _)
TocFrom(i, modules) ==
    IF i > Len(modules) THEN << >>
    ELSE ModuleEntries(i, modules[i]) \o TocFrom(i + 1, modules)

\* generator.py:134-156: the lines that "\n".join(toc) puts one per line
generate_table_of_contents(modules) == TocFrom(1, modules)

CallToc ==
    /\ gpc = "idle"
    /\ \E modules \in ModuleLists :
         /\ entry' = "generate_table_of_contents"
         /\ arg' = modules
         /\ result' = [type |-> "toc", v |-> generate_table_of_contents(modules)]
    /\ gpc' = "done"
    /\ UNCHANGED <<chain_runs, texts, frame>>
    /\ GenUnchanged

\* ---------------------------------------------------------------- save_course_content: the file name
TitleChars == {"A", "b", " ", "/", "\\", "_"}
CourseTitles == UNION {[1..n -> TitleChars] : n \in 0..MaxTitleLen}

\* Faulty variant: the '/' is left in the name.
filename_keeping_slash(title) ==
    replace(replace(lower(title), " ", "_"), "\\", "_")

\* main.py:111
filename(title) ==
    replace(replace(replace(lower(title), " ", "_"), "/", "_"), "\\", "_")

\* main.py:112: f"generated_courses/{filename}.md"
filepath(title) ==
    [type |-> "path", dir |-> "generated_courses", name |-> filename(title), ext |-> ".md"]

CallFilename ==
    /\ gpc = "idle"
    /\ \E title \in CourseTitles :
         /\ entry' = "filepath"
         /\ arg' = Str(title)
         /\ result' = filepath(title)
    /\ gpc' = "done"
    /\ UNCHANGED <<chain_runs, texts, frame>>
    /\ GenUnchanged

\* ---------------------------------------------------------------- markdown text
\* A text is a sequence of lines; a line has a heading level (0: no heading)
\* and its characters.
Line(level, text) == [level |-> level, text |-> text]
Blank == Line(0, << >>)

\* What chain.run() can return: prose, prose inside blank lines, prose under a
\* heading of its own.
Replies == {
    <<Line(0, <<"p", "r", "o", "s", "e">>)>>,
    <<Blank, Line(0, <<"p", "r", "o", "s", "e">>), Blank>>,
    <<Line(2, <<"O", "v", "e", "r", "v", "i", "e", "w">>), Line(0, <<"p", "r", "o", "s", "e">>)>>
}

\* str.strip(): leading and trailing blank lines go
RECURSIVE lstrip(_)
lstrip(text) ==
    IF text # << >> /\ Head(text) = Blank THEN lstrip(Tail(text)) ELSE text
RECURSIVE rstrip(_)
rstrip(text) ==
    IF text # << >> /\ text[Len(text)] = Blank
    THEN rstrip(SubSeq(text, 1, Len(text) - 1)) ELSE text
strip(text) == rstrip(lstrip(text))

\* sep.join(list) on str
RECURSIVE join(_, _)
join(sep, list) ==
    IF list = << >> THEN << >>
    ELSE IF Len(list) = 1 THEN list[1]
    ELSE list[1] \o sep \o join(sep, Tail(list))

\* ---------------------------------------------------------------- the templates
\* generator.py:20-24
MODULE_TEMPLATE(module_title, module_content) ==
    <<Blank, Line(2, module_title), Blank>> \o module_content

\* generator.py:26-34
SOFTWARE_MODULE_TEMPLATE(module_title, module_content, code_examples) ==
    <<Blank, Line(2, module_title), Blank>> \o module_content
    \o <<Blank, Line(3, <<"C", "o", "d", "e", " ", "E", "x", "a", "m", "p", "l", "e", "s">>), Blank>> \o code_examples

\* generator.py:36-45
COURSE_TEMPLATE(course_title, course_description, table_of_contents, modules_content) ==
    <<Blank, Line(1, course_title), Blank>> \o course_description
    \o <<Blank, Line(2, <<"T", "a", "b", "l", "e", " ", "o", "f", " ", "C", "o", "n", "t", "e", "n", "t", "s">>)>>
    \o [k \in 1..Len(table_of_contents) |-> Line(0, table_of_contents[k].title)]
    \o <<Blank>> \o modules_content

\* ---------------------------------------------------------------- chain.run()
\* One call of the text-generation service: the prompt it is for, the title
\* and the modules/sections context it is given, whether it raised.
Run(template, title, context, raised) ==
    [template |-> template, title |-> title, context |-> context, raised |-> raised]

NoSections == <<"N", "o", " ", "s", "p", "e", "c", "i", "f", "i", "c", " ", "s", "e", "c", "t", "i", "o", "n", "s">>

\* Faulty variant: no fallback for an empty list.
sections_context_blank(module) ==
    join(<<",", " ">>,
         IF module.has_sections
         THEN [j \in 1..Len(module.sections) |-> module.sections[j].title]
         ELSE << >>)

\* generator.py:205-208, 214 (and 267-270, 277-278): the `sections` variable
\* of the prompt
sections_context(module) ==
    LET section_titles ==
            IF module.has_sections
            THEN [j \in 1..Len(module.sections) |-> module.sections[j].title]
            ELSE << >>
    IN  IF section_titles # << >> THEN join(<<",", " ">>, section_titles)
        ELSE NoSections

\* An exception leaves the function that is run.
Raise ==
    /\ result' = Raised
    /\ gpc' = "done"
    /\ UNCHANGED <<texts, frame>>

\* What generate_course_content hands to is_software_course (generator.py:76):
\* ('software' in category.lower() or 'programming' in category.lower()),
\* category being course_data.get('category', '')
ClassifierArgument(course_data) ==
    LET category == IF course_data.has_category THEN course_data.category ELSE << >>
    IN  Bool(Contains(<<"s", "o", "f", "t", "w", "a", "r", "e">>, lower(category))
             \/ Contains(<<"p", "r", "o", "g", "r", "a", "m", "m", "i", "n", "g">>, lower(category)))

\* ---------------------------------------------------------------- generate_module_content
\* generate_standard_module / generate_software_module return a rendering:
\* to generate_module_content's caller when it is run on its own, to the
\* module loop of generate_course_content otherwise.
ReturnModule(rendering) ==
    IF entry = "generate_module_content"
    THEN /\ result' = [type |-> "document", v |-> rendering]
         /\ gpc' = "done"
         /\ UNCHANGED frame
    ELSE /\ frame' = [i |-> frame.i,
                      modules_content |-> Append(frame.modules_content, rendering)]
         /\ gpc' = "modules"
         /\ UNCHANGED result

\* The module the module functions work on.
Module == IF entry = "generate_module_content" THEN arg.module ELSE arg.modules[frame.i]

\* generator.py:159-175, called with a module and a bool.
CallGenerateModule ==
    /\ gpc = "idle"
    /\ \E module \in ModuleOutlines, is_software \in BOOLEAN :
         /\ entry' = "generate_module_content"
         /\ arg' = [module |-> module, is_software |-> is_software]
         /\ gpc' = IF is_software THEN "software_content" ELSE "standard"
    /\ UNCHANGED <<chain_runs, texts, frame, result>>
    /\ GenUnchanged

\* generator.py:205-219
StandardModule ==
    /\ gpc = "standard"
    /\ \/ /\ chain_runs' = Append(chain_runs,
                Run("module_body", Module.title, sections_context(Module), TRUE))
          /\ Raise
       \/ \E content \in Replies :
            /\ chain_runs' = Append(chain_runs,
                  Run("module_body", Module.title, sections_context(Module), FALSE))
            /\ ReturnModule(MODULE_TEMPLATE(Module.title, strip(content)))
            /\ UNCHANGED texts
    /\ UNCHANGED <<entry, arg>>
    /\ GenUnchanged

\* generator.py:267-277: the prose without code
SoftwareContent ==
    /\ gpc = "software_content"
    /\ \/ /\ chain_runs' = Append(chain_runs,
                Run("module_body_no_code", Module.title, sections_context(Module), TRUE))
          /\ Raise
       \/ \E content \in Replies :
            /\ chain_runs' = Append(chain_runs,
                  Run("module_body_no_code", Module.title, sections_context(Module), FALSE))
            /\ texts' = Append(texts, content)
            /\ gpc' = "software_code"
            /\ UNCHANGED <<frame, result>>
    /\ UNCHANGED <<entry, arg>>
    /\ GenUnchanged

\* generator.py:278-284: the code examples, and the rendering
SoftwareCode ==
    /\ gpc = "software_code"
    /\ \/ /\ chain_runs' = Append(chain_runs,
                Run("module_code_examples", Module.title, sections_context(Module), TRUE))
          /\ Raise
       \/ \E code_examples \in Replies :
            /\ chain_runs' = Append(chain_runs,
                  Run("module_code_examples", Module.title, sections_context(Module), FALSE))
            /\ ReturnModule(SOFTWARE_MODULE_TEMPLATE(Module.title,
                                strip(texts[Len(texts)]), strip(code_examples)))
            /\ texts' = SubSeq(texts, 1, Len(texts) - 1)
    /\ UNCHANGED <<entry, arg>>
    /\ GenUnchanged

\* ---------------------------------------------------------------- generate_course_content
CourseOutlines ==
    [title : {<<"I", "n", "t", "r", "o", " ", "t", "o", " ", "G", "o">>}, has_category : {TRUE},
     category : {<<"p", "r", "o", "g", "r", "a", "m", "m", "i", "n", "g">>, <<"H", "i", "s", "t", "o", "r", "y">>}, modules : ModuleLists]
    \cup [title : {<<"I", "n", "t", "r", "o", " ", "t", "o", " ", "G", "o">>}, has_category : {FALSE},
          category : {<< >>}, modules : ModuleLists]

\* generator.py:47-65, called with a valid outline.
CallGenerateCourse ==
    /\ gpc = "idle"
    /\ \E course_data \in CourseOutlines :
         /\ entry' = "generate_course_content"
         /\ arg' = course_data
    /\ gpc' = "describe"
    /\ UNCHANGED <<chain_runs, texts, frame, result>>
    /\ GenUnchanged

ModuleTitlesOf(course_data) ==
    [k \in 1..Len(course_data.modules) |-> course_data.modules[k].title]

\* Faulty variant: a failed description call is swallowed and the course goes
\* on with an empty description.
GenerateDescriptionSwallowing ==
    /\ gpc = "describe"
    /\ \/ /\ chain_runs' = Append(chain_runs,
                Run("course_description", arg.title,
                    join(<<",", " ">>, ModuleTitlesOf(arg)), TRUE))
          /\ texts' = <<<< >>>>
          /\ gpc' = "modules"
          /\ UNCHANGED <<frame, result>>
       \/ \E description \in Replies :
            /\ chain_runs' = Append(chain_runs,
                  Run("course_description", arg.title,
                      join(<<",", " ">>, ModuleTitlesOf(arg)), FALSE))
            /\ texts' = <<strip(description)>>
            /\ gpc' = "modules"
            /\ UNCHANGED <<frame, result>>
    /\ UNCHANGED <<entry, arg>>
    /\ GenUnchanged

\* generator.py:67-68, 94-131: the course description; an exception is logged
\* and re-raised at generator.py:89-91.
GenerateDescription ==
    /\ gpc = "describe"
    /\ \/ /\ chain_runs' = Append(chain_runs,
                Run("course_description", arg.title,
                    join(<<",", " ">>, ModuleTitlesOf(arg)), TRUE))
          /\ Raise
       \/ \E description \in Replies :
            /\ chain_runs' = Append(chain_runs,
                  Run("course_description", arg.title,
                      join(<<",", " ">>, ModuleTitlesOf(arg)), FALSE))
            /\ texts' = <<strip(description)>>
            /\ gpc' = "modules"
            /\ UNCHANGED <<frame, result>>
    /\ UNCHANGED <<entry, arg>>
    /\ GenUnchanged

\* generator.py:70-87: the table of contents, the head of the module loop, and
\* past the last module the composition. For the next module the argument of
\* generate_module_content is evaluated first: is_software_course of a bool.
GenerateModules ==
    /\ gpc = "modules"
    /\ entry = "generate_course_content"
    /\ IF frame.i < Len(arg.modules)
       THEN LET is_software == is_software_course(ClassifierArgument(arg))
            IN  IF is_software.type = "raised"
                THEN Raise
                ELSE /\ frame' = [frame EXCEPT !.i = frame.i + 1]
                     /\ gpc' = IF is_software.v THEN "software_content" ELSE "standard"
                     /\ UNCHANGED <<texts, result>>
       ELSE /\ result' = [type |-> "document",
                          v |-> COURSE_TEMPLATE(arg.title, texts[1],
                                    generate_table_of_contents(arg.modules),
                                    join(<<Blank, Blank>>, frame.modules_content))]
            /\ gpc' = "done"
            /\ UNCHANGED <<texts, frame>>
    /\ UNCHANGED <<entry, arg, chain_runs>>
    /\ GenUnchanged

GenNext ==
    \/ CallClassify
    \/ CallToc
    \/ CallFilename
    \/ CallGenerateModule
    \/ StandardModule
    \/ SoftwareContent
    \/ SoftwareCode
    \/ CallGenerateCourse
    \/ GenerateDescription
    \/ GenerateModules

GenSpec == Init /\ [][GenNext]_vars

\* ================================================================ claims
Missing   == {"notitle", "nomodules"}
Malformed == {"undecodable", "nonobject", "notitle", "nomodules"}
Ended     == {"closing", "exited"}

\* C1: the committed offset changes only at consumer.commit() in main(), after
\* process_message has returned for the fetched message (its outcome is
\* Skipped, Failed or Generated, and a Generated one has been through
\* save_course_content), and it becomes that message's offset + 1; it never
\* changes while the message is validated, generated or persisted.
C1_CommitOnlyAfterHandled ==
    [][committed' # committed =>
          /\ pc = "commit"
          /\ outcome \in {"Skipped", "Failed", "Generated"}
          /\ (outcome = "Generated" => persist \in {"ok", "failed"})
          /\ curOff \in handled
          /\ committed' = curOff + 1]_vars

C1_Witness ==
    /\ pc = "fetch"
    /\ committed = curOff + 1
    /\ outcome = "Generated"
    /\ persist = "ok"

\* C2: whenever a message's offset is committed and its generation
\* succeeded, the complete artifact is in the store, also when the write failed.
C2_CommittedImpliesWritten ==
    (cur # NoMsg /\ committed = curOff + 1 /\ outcome = "Generated")
        => store[cur.title] = "complete"

\* C3: a message fetched and not handled (the consumer stopped or crashed
\* before process_message returned) is never skipped over: a running consumer
\* either has it in flight or has its position at or before it.
C3_NoFetchedMessageLost ==
    \A o \in fetched \ handled :
        pc \in Running => (position <= o \/ (curOff = o /\ pc \in Partial))

\* C4: when KeyboardInterrupt arrives while a message is validated, generated
\* or persisted, the loop ends (handler, then close) and that message's offset
\* is not committed; the interrupt is also taken while the loop waits in fetch.
C4_StopCommitsNothingPartial ==
    /\ (exitCause = "stop" /\ stopPhase \in Partial) =>
          /\ pc \in Ended
          /\ committed <= curOff
          /\ curOff \notin commitDone
    /\ (exitCause = "stop" /\ stopPhase = "fetch") =>
          (pc \in Ended /\ committed <= position)

C4_Witness ==
    /\ exitCause = "stop"
    /\ stopPhase = "write"
    /\ pc = "exited"
    /\ closed

\* C5: for a message without 'title' or without 'modules', no generation call
\* is issued and the store is not touched; process_message logs the invalid
\* format and returns, and the loop is at the commit of that offset.
C5_MissingFieldSkipsGeneration ==
    cur.kind \in Missing =>
        /\ pc \in {"process", "commit", "fetch"} \cup Ended
        /\ calls = 0
        /\ writes = 0
        /\ persist = "none"
        /\ (pc \in {"commit", "fetch"} =>
               outcome = "Skipped" /\ errlog = {"invalid_format"})
        /\ (pc = "fetch" => committed = curOff + 1)

C5_Witness ==
    /\ cur.kind = "nomodules"
    /\ pc = "commit"
    /\ calls = 0
    /\ writes = 0

\* C6: every malformed or incomplete message the loop comes to, a payload that
\* is not JSON included, is recovered: once it is no longer being processed
\* the loop is at its commit, or has committed it and is fetching again (or
\* was ended by a stop, a kill or a failed commit, not by the message).
C6_MalformedRecovered ==
    \A o \in 0..(Len(log) - 1) :
        (log[o + 1].kind \in Malformed /\ curOff = o /\ pc \notin Partial) =>
            \/ pc = "commit"
            \/ pc = "fetch" /\ committed = o + 1
            \/ exitCause \in {"stop", "crash", "commit"}

C8_PersistFailureStillCommits ==
    persist = "failed" =>
        /\ "error_saving" \in errlog
        /\ outcome = "Generated"
        /\ pc \in {"commit", "fetch"} \cup Ended
        /\ (pc = "fetch" => committed = curOff + 1)
        /\ (pc \in Ended => exitCause \in {"stop", "crash", "commit"})

C8_Witness ==
    /\ persist = "failed"
    /\ pc = "fetch"
    /\ committed = curOff + 1
    /\ store[cur.title] # "complete"

\* C9: once the consumer is created, the loop ends only on a stop signal (an
\* interrupt or a kill): no decoding, validation, generation, persistence or
\* commit failure ends it.
C9_OnlyStopEndsLoop ==
    (pc \in Ended /\ exitCause # "startup") => exitCause \in {"stop", "crash"}

\* C10: within one run, messages are handed to process_message in offset
\* order, one at a time: every message started before the latest one has had
\* its consumer.commit() return, and the message being processed is the latest.
C10_OneAtATimeInOrder ==
    /\ \A i \in 1..(Len(runStarted) - 1) :
          /\ runStarted[i] \in commitDone
          /\ runStarted[i + 1] = runStarted[i] + 1
    /\ pc \in Partial \cup {"commit"} =>
          (Len(runStarted) >= 1 /\ curOff = runStarted[Len(runStarted)])
    /\ Cardinality({i \in 1..Len(runStarted) : runStarted[i] \notin commitDone}) <= 1

C10_Witness ==
    /\ Len(runStarted) = 2
    /\ pc = "save"
    /\ runStarted[1] \in commitDone

\* C11: outside a write in progress, the file of every course is either
\* untouched ("absent") or the complete document, never a truncated or partial
\* one, also after a write error or a stop during persistence.
C11_AllOrNothing ==
    pc # "write" => \A t \in Titles : store[t] \in {"absent", "complete"}

\* ---------------------------------------------------------------- claims on the functions
Returned == gpc = "done" /\ result.type # "raised"

SameLetter(a, b) ==
    a = b \/ \E n \in 1..Len(UpperLetters) : UpperLetters[n] = a /\ LowerLetters[n] = b

\* keyword k occurs in category c, letter case of c aside
OccursAnyCase(k, c) ==
    \E i \in 0..(Len(c) - Len(k)) : \A j \in 1..Len(k) : SameLetter(c[i + j], k[j])

\* C14: on every category string is_software_course returns (it does not
\* raise) a bool, TRUE exactly when one of the sixteen keywords occurs in the
\* category whatever the letter case; so TRUE with "python" anywhere in any
\* case and for "Biosoftware", FALSE for "History".
C14_ClassifyTotalSubstring ==
    entry = "is_software_course" =>
        /\ gpc = "done"
        /\ result.type = "bool"
        /\ result.v <=> \E k \in 1..Len(software_keywords) :
                            OccursAnyCase(software_keywords[k], arg.v)
        /\ OccursAnyCase(<<"p", "y", "t", "h", "o", "n">>, arg.v) => result.v
        /\ arg.v = <<"B", "i", "o", "s", "o", "f", "t", "w", "a", "r", "e">> => result.v
        /\ arg.v = <<"H", "i", "s", "t", "o", "r", "y">> => ~result.v

C14_Witness ==
    /\ entry = "is_software_course"
    /\ arg.v = <<"I", "n", "t", "r", "o", " ", "t", "o", " ", "p", "Y", "t", "H", "o", "N", " ", "1", "0", "1">>
    /\ result.v = TRUE

\* Positions of the top-level lines of a table, in order
TopLines(toc) == {k \in 1..Len(toc) : toc[k].indent = 0}
NthTop(toc, i) ==
    CHOOSE k \in TopLines(toc) : Cardinality({x \in TopLines(toc) : x < k}) = i - 1
Sections(module) == IF module.has_sections THEN module.sections ELSE << >>

\* C16: the table of contents has exactly one top-level line per module,
\* numbered 1..N and titled in outline order; directly beneath module i's line
\* come exactly its sections' lines, indented, numbered i.1..i.M and titled in
\* outline order, and then the next module's line (or the end of the table).
C16_TocStructure ==
    entry = "generate_table_of_contents" =>
        LET toc == result.v
            N   == Len(arg)
        IN  /\ Cardinality(TopLines(toc)) = N
            /\ \A i \in 1..N :
                 LET k == NthTop(toc, i)
                     M == Len(Sections(arg[i]))
                 IN  /\ toc[k].number = <<i>>
                     /\ toc[k].title = arg[i].title
                     /\ k + M <= Len(toc)
                     /\ \A j \in 1..M :
                          /\ toc[k + j].indent = 3
                          /\ toc[k + j].number = <<i, j>>
                          /\ toc[k + j].title = arg[i].sections[j].title
                     /\ (k + M < Len(toc) => toc[k + M + 1].indent = 0)
                     /\ (i = N => k + M = Len(toc))

C16_Witness ==
    /\ entry = "generate_table_of_contents"
    /\ Len(arg) = 2
    /\ arg[1].has_sections /\ Len(arg[1].sections) = 2
    /\ ~arg[2].has_sections
    /\ Len(result.v) = 4
    /\ result.v[3].anchor = <<"l", "o", "o", "p", "s">>

Separators == {"/", "\\"}

\* The title lower-cased, spaces turned into underscores, separators dropped
RECURSIVE StrippedName(_)
StrippedName(title) ==
    IF title = << >> THEN << >>
    ELSE LET c    == Head(title)
             rest == StrippedName(Tail(title))
         IN  IF c \in Separators THEN rest
             ELSE IF c = " " THEN <<"_">> \o rest
             ELSE <<LowerChar(c)>> \o rest

\* C20 (as stated): the artifact's name is {sanitized_title}.md under the
\* output root, sanitized_title being the title lower-cased with every space
\* replaced by an underscore and every path separator stripped.
C20_SeparatorsStripped ==
    entry = "filepath" =>
        /\ result.dir = "generated_courses"
        /\ result.ext = ".md"
        /\ result.name = StrippedName(arg.v)

\* C20 (amended): the artifact's name is {sanitized_title}.md under the output
\* root, sanitized_title being the title lower-cased with every space and
\* every path separator ('/' and '\') replaced by an underscore, character for
\* character; the name contains no path separator.
C20_SeparatorsReplaced ==
    entry = "filepath" =>
        /\ result.dir = "generated_courses"
        /\ result.ext = ".md"
        /\ Len(result.name) = Len(arg.v)
        /\ \A i \in 1..Len(arg.v) :
             result.name[i] = IF arg.v[i] \in Separators \cup {" "} THEN "_"
                              ELSE LowerChar(arg.v[i])
        /\ \A i \in 1..Len(result.name) : result.name[i] \notin Separators

C20_Witness ==
    /\ entry = "filepath"
    /\ arg.v = <<"A", "/", "b">>
    /\ result.name = <<"a", "_", "b">>

\* ---------------------------------------------------------------- claims on generation
NoCallFailed == \A k \in 1..Len(chain_runs) : ~chain_runs[k].raised
SomeCallFailed == \E k \in 1..Len(chain_runs) : chain_runs[k].raised
Templates == [k \in 1..Len(chain_runs) |-> chain_runs[k].template]
CourseDone == entry = "generate_course_content" /\ gpc = "done"

\* The variant of a course: the classifier applied to its category string.
CodeAnnotated(course_data) ==
    is_software_course(Str(IF course_data.has_category
                           THEN course_data.category ELSE << >>)).v

\* The calls a fully generated course uses: the description, then per module
\* one body call (Standard) or the body without code and the code examples
\* (CodeAnnotated).
ExpectedTemplates(course_data) ==
    LET N == Len(course_data.modules)
    IN  <<"course_description">> \o
        (IF CodeAnnotated(course_data)
         THEN [k \in 1..(2 * N) |-> IF k % 2 = 1 THEN "module_body_no_code"
                                    ELSE "module_code_examples"]
         ELSE [k \in 1..N |-> "module_body"])

\* C12: a course generation in which no call failed ends having issued the
\* description call first, then for each module in order one body call
\* (Standard) or two (CodeAnnotated): 1+N or 1+2N calls.
C12_CallsInFixedOrder ==
    (CourseDone /\ NoCallFailed) => Templates = ExpectedTemplates(arg)

\* C13: once a generation call has failed it is the last call issued, the
\* function has ended raising, and no document is returned.
C13_FailureAbortsCourse ==
    \A k \in 1..Len(chain_runs) :
        chain_runs[k].raised =>
            /\ k = Len(chain_runs)
            /\ gpc = "done"
            /\ result.type = "raised"

\* The description call of a course with modules failed.
C13_Witness ==
    /\ CourseDone
    /\ Len(arg.modules) >= 1
    /\ SomeCallFailed
    /\ result.type = "raised"

\* The texts of the headings of one level, in document order.
Headings(level, doc) ==
    LET lines == SelectSeq(doc, LAMBDA l : l.level = level)
    IN  [k \in 1..Len(lines) |-> lines[k].text]

CodeExamplesSections(doc) ==
    Len(SelectSeq(Headings(3, doc), LAMBDA t : t = <<"C", "o", "d", "e", " ", "E", "x", "a", "m", "p", "l", "e", "s">>))

\* C15: a course generated without a failed call is a document in which every
\* module rendering has a Code Examples section when the category classifies
\* as CodeAnnotated, and none has when it classifies as Standard.
C15_VariantCourseWide ==
    (CourseDone /\ NoCallFailed) =>
        /\ result.type = "document"
        /\ CodeExamplesSections(result.v) =
               IF CodeAnnotated(arg) THEN Len(arg.modules) ELSE 0

\* The module-level headings of a document: its level-2 headings, the
\* template's own Table of Contents heading apart.
ModuleHeadings(doc) ==
    SelectSeq(Headings(2, doc), LAMBDA t : t # <<"T", "a", "b", "l", "e", " ", "o", "f", " ", "C", "o", "n", "t", "e", "n", "t", "s">>)

\* C17: the module-level headings of a composed document are the module
\* titles of the outline, in order.
C17_HeadingsRoundTrip ==
    (entry = "generate_course_content" /\ result.type = "document") =>
        ModuleHeadings(result.v) = ModuleTitlesOf(arg)

SectionsEmptyOrAbsent(module) == ~module.has_sections \/ module.sections = << >>

\* C19: for a module with an empty or absent section list every generation
\* call gets the sentinel as its sections context, never the empty string,
\* and with every call answered the module is rendered under its heading.
C19_SentinelForNoSections ==
    (entry = "generate_module_content" /\ SectionsEmptyOrAbsent(arg.module)) =>
        /\ \A k \in 1..Len(chain_runs) :
               /\ chain_runs[k].context = NoSections
               /\ chain_runs[k].context # << >>
        /\ (gpc = "done" /\ NoCallFailed) =>
               /\ result.type = "document"
               /\ Headings(2, result.v)[1] = arg.module.title
               /\ Len(chain_runs) = IF arg.is_software THEN 2 ELSE 1

\* A software module with an empty section list, both calls answered.
C19_Witness ==
    /\ entry = "generate_module_content"
    /\ arg.is_software
    /\ arg.module.has_sections
    /\ arg.module.sections = << >>
    /\ gpc = "done"
    /\ Len(chain_runs) = 2
    /\ result.type = "document"

\* ---------------------------------------------------------------- claims on shutdown
\* C18: a consumer that leaves its loop through the stop signal or through an
\* unexpected error closes its session: it is never exited unclosed, and the
\* close follows the end of the loop.
C18_SessionClosedOnExit ==
    /\ [](pc = "exited" /\ exitCause \in {"stop", "decode", "commit"} => closed)
    /\ (pc = "closing") ~> (pc = "exited" /\ closed)

\* Stopped in the middle of a write, and closed.
C18_Witness ==
    /\ pc = "exited"
    /\ exitCause = "stop"
    /\ stopPhase = "write"
    /\ closed

============================================================================
